---- MODULE Spec2Model ----
(***************************************************************************)
(* The now-playing poller (src/poller/index.ts with its helpers state.ts,  *)
(* tauon.ts, art.ts, deploy.ts) and the storage slot of the Deploy API     *)
(* that receives its publishes.  Every `await` of poll() is a point where  *)
(* another poll() started by setInterval may run, so a tick is a record    *)
(* in the bag `inflight` that moves from one await to the next.  The       *)
(* Deploy API itself (server.ts) is a bag `reqs` of handleRequest calls    *)
(* over the same slot, and the renderer (svg/, text.ts) a function applied *)
(* by a harness to snapshots, configs and render times.                    *)
(***************************************************************************)
EXTENDS Integers, Sequences, FiniteSets, Bags, TLC

\* How many poll() calls may be suspended at an await at the same time.
MaxInFlight == 2

\* `null` of a `string | null` / `ColorPalette | null` value.
Null == "null"
\* `null` of `lastSentTrackId: number | null`; no track has this id.
NullId == -1

Statuses == {"playing", "paused", "stopped"}

\* The tracks the player can report: /api1/status carries the id, the
\* top-level title/album and the nested track record.
PlayerTracks ==
    { [id |-> 5, title |-> "five", album |-> "A",
       track |-> [title |-> "five", album |-> "A"]],
      [id |-> 7, title |-> "seven", album |-> "B",
       track |-> [title |-> "seven", album |-> "B"]],
      [id |-> 3, title |-> "", album |-> "",
       track |-> [title |-> "", album |-> ""]] }

\* A parsed TauonStatus: what one successful status fetch can return.
TauonStatus ==
    { [id |-> p.id, status |-> s, title |-> p.title, album |-> p.album,
       track |-> p.track] : p \in PlayerTracks, s \in Statuses }

\* Placeholder of a tick that has not received its status yet.
NoStatus ==
    [id |-> NullId, status |-> Null, title |-> "", album |-> "",
     track |-> [title |-> "", album |-> ""]]

\* Placeholder for "no NowPlayingData": the empty KV slot, or a tick that has
\* not assembled its payload yet.
NoData ==
    [title |-> Null, album |-> Null, status |-> Null, artBase64 |-> Null,
     colors |-> Null, updatedAt |-> NullId]

\* What the player's /api1/pic/medium/{id} yields after resize and palette
\* extraction: an ArtResult {base64, colors} for that track id.
ArtResultOf(trackId) ==
    CASE trackId = 5 -> [base64 |-> "jpeg5", colors |-> "palette5"]
      [] trackId = 7 -> [base64 |-> "jpeg7", colors |-> "palette7"]
      [] OTHER -> [base64 |-> "jpeg", colors |-> "palette"]

\* `null` of `ArtResult | null`: the fetch, the resize or the extraction failed.
NoArtResult == [base64 |-> Null, colors |-> Null]

VARIABLES
    lastSentTrackId,   \* index.ts:14
    lastSentStatus,    \* index.ts:15
    lastSeenStatus,    \* index.ts:16
    lastAlbumName,     \* index.ts:17
    lastArtBase64,     \* index.ts:18
    lastColors,        \* index.ts:19
    inflight,          \* bag of the poll() calls suspended at an await
    timerOn,           \* setInterval(poll, POLL_INTERVAL_MS) has been called
    kv,                \* the Deploy API's KV slot ["now-playing"]
    ev,                \* history: what the step just taken was
    okId, okStatus,    \* history: track id / status of the last publish that succeeded
    stoppedSince,      \* history: a stopped status was observed since that publish
    lastPublish,       \* history: how the sendToDeploy that returned last ended
    tracing,           \* the scenario histories below are kept (fixed by Init)
    resumeFrom,        \* history: track t when (t, playing) was the last publish
                       \*   that succeeded and the latest observation was stopped
    retry,             \* history: <<id, status>> of a publish that has just failed,
                       \*   until the next observation
    scriptPos,         \* history: how much of Script the observations have matched
    pubAt,             \* history: Script indices whose tick's publish succeeded
    anyFail,           \* history: a publish has failed while on Script
    fn,                \* the pure-function harness: arguments and result
    reqs,              \* bag of the handleRequest calls suspended at an await
    resp,              \* the Response the server returned last, with its request
    accepted,          \* history: the body of the POST stored last
    clock              \* Date.now(), and whether time is let to pass (fixed by Init)

pollerVars ==
    <<lastSentTrackId, lastSentStatus, lastSeenStatus, lastAlbumName,
      lastArtBase64, lastColors, inflight, timerOn, kv>>
histVars == <<ev, okId, okStatus, stoppedSince, lastPublish>>
traceVars == <<tracing, resumeFrom, retry, scriptPos, pubAt, anyFail>>
serverVars == <<reqs, resp, accepted>>
vars == <<pollerVars, histVars, traceVars, fn, serverVars, clock>>

----------------------------------------------------------------------------
\* Pure helpers of the poller.

\* JavaScript truthiness of a `string | null` value, as `&&` and `||` use it.
Truthy(x) == x # Null /\ x # ""

\* `a || b` on strings.
OrElse(a, b) == IF Truthy(a) THEN a ELSE b

\* String.prototype.trim on the album names of the model (blank -> "").
Trim(s) == IF s = " " THEN "" ELSE s

IsPlayableStatus(s) == s = "playing" \/ s = "paused"

\* shouldUpdate with its last clause (resume from stopped) forgotten.
shouldUpdate_noResume(status, sentTrackId, sentStatus, seenStatus) ==
    /\ status.status = "playing" \/ status.status = "paused"
    /\ status.id # sentTrackId \/ status.status # sentStatus

\* shouldUpdate that never suppresses a playable status.
shouldUpdate_always(status, sentTrackId, sentStatus, seenStatus) ==
    status.status = "playing" \/ status.status = "paused"

\* state.ts shouldUpdate: a chain of early returns.
shouldUpdate(status, sentTrackId, sentStatus, seenStatus) ==
    LET trackId == status.id
        statusStr == status.status
        isPlayableStatus == statusStr = "playing" \/ statusStr = "paused"
    IN  IF ~isPlayableStatus THEN FALSE
        ELSE IF trackId # sentTrackId THEN TRUE
        ELSE IF statusStr # sentStatus THEN TRUE
        ELSE IF seenStatus = "stopped" THEN TRUE
        ELSE FALSE

\* index.ts:42-50 with the playable-status tests lost: only the comparisons
\* against the memory decide.
PollDecision_unfiltered(status) ==
    IF \/ status.id # lastSentTrackId
       \/ status.status # lastSentStatus
       \/ lastSeenStatus = "stopped"
    THEN "admit" ELSE "suppress"

\* index.ts:42-50: what poll() does with a status it has received.
PollDecision(status) ==
    IF status.status # "playing" /\ status.status # "paused" THEN "reject"
    ELSE IF ~shouldUpdate(status, lastSentTrackId, lastSentStatus,
                          lastSeenStatus) THEN "suppress"
    ELSE "admit"

\* index.ts:54
AlbumName(status) == Trim(OrElse(OrElse(status.track.album, status.album), ""))

\* index.ts:57-58 with the album-name comparison lost: any cached art counts.
HasCachedArt_anyAlbum(status) ==
    /\ AlbumName(status) # ""
    /\ Truthy(lastArtBase64)
    /\ Truthy(lastColors)

\* index.ts:57-58
HasCachedArt(status) ==
    /\ AlbumName(status) # ""
    /\ AlbumName(status) = lastAlbumName
    /\ Truthy(lastArtBase64)
    /\ Truthy(lastColors)

\* index.ts:55-56, 60: the guard of the art block.
WantsArt(status) ==
    /\ IsPlayableStatus(status.status)
    /\ status.id > 0
    /\ AlbumName(status) # ""

\* index.ts:76-89 (the fields the renderer and the claims read; artist,
\* albumArtist, trackNumber, duration, progress are copied the same way).
NowPlayingData(status, artBase64, colors) ==
    [title |-> OrElse(OrElse(status.title, status.track.title), "Unknown Title"),
     album |-> OrElse(OrElse(status.album, status.track.album), "Unknown Album"),
     status |-> status.status,
     artBase64 |-> artBase64,
     colors |-> colors,
     updatedAt |-> clock.now]

\* index.ts:63-69 with `colors = artResult.colors` forgotten.
ArtBlock_noColors(status, artResult) ==
    IF artResult # NoArtResult
    THEN [artBase64 |-> artResult.base64, colors |-> Null,
          lastAlbumName |-> AlbumName(status),
          lastArtBase64 |-> artResult.base64, lastColors |-> Null]
    ELSE [artBase64 |-> Null, colors |-> Null,
          lastAlbumName |-> lastAlbumName,
          lastArtBase64 |-> lastArtBase64, lastColors |-> lastColors]

\* index.ts:63-69 falling back to the cached art when the fetch fails.
ArtBlock_staleOnFailure(status, artResult) ==
    IF artResult # NoArtResult
    THEN [artBase64 |-> artResult.base64, colors |-> artResult.colors,
          lastAlbumName |-> AlbumName(status),
          lastArtBase64 |-> artResult.base64, lastColors |-> artResult.colors]
    ELSE [artBase64 |-> lastArtBase64, colors |-> lastColors,
          lastAlbumName |-> lastAlbumName,
          lastArtBase64 |-> lastArtBase64, lastColors |-> lastColors]

\* index.ts:62-69: the locals and the cache after fetchAndResizeArt returned.
ArtBlock(status, artResult) ==
    IF artResult # NoArtResult
    THEN [artBase64 |-> artResult.base64, colors |-> artResult.colors,
          lastAlbumName |-> AlbumName(status),
          lastArtBase64 |-> artResult.base64, lastColors |-> artResult.colors]
    ELSE [artBase64 |-> Null, colors |-> Null,
          lastAlbumName |-> lastAlbumName,
          lastArtBase64 |-> lastArtBase64, lastColors |-> lastColors]

----------------------------------------------------------------------------
\* The poll() calls in flight.

Ticks == BagToSet(inflight)
Replace(t, u) == (inflight (-) SetToBag({t})) (+) SetToBag({u})
Remove(t) == inflight (-) SetToBag({t})

\* A poll() that has just called fetchTauonStatus (index.ts:35).
NewTick ==
    [pc |-> "status", status |-> NoStatus, data |-> NoData, idx |-> -1]

\* A tick that wanted art and carries none had its art fetch fail: the cached
\* art of HasCachedArt is never null.
ArtFailed(t) == WantsArt(t.status) /\ t.data # NoData /\ t.data.artBase64 = Null

\* The observations of the admission-filter example: ids [5,5,5,7,7] with
\* statuses [playing, playing, paused, paused, paused].
Script ==
    << <<5, "playing">>, <<5, "playing">>, <<5, "paused">>,
       <<7, "paused">>, <<7, "paused">> >>

\* No Response returned yet.
NoResponse ==
    [req |-> [method |-> Null, url |-> [path |-> Null, search |-> Null],
              auth |-> Null, body |-> Null],
     status |-> 0, contentType |-> Null, cacheControl |-> Null,
     cors |-> FALSE, body |-> Null, value |-> NoData]

\* The Deploy API before its first request: no handler running, nothing
\* answered, the slot as kv has it.
InitServer ==
    /\ reqs = EmptyBag
    /\ resp = NoResponse
    /\ accepted = NoData

InitPollerState ==
    /\ lastSentTrackId = NullId
    /\ lastSentStatus = Null
    /\ lastSeenStatus = Null
    /\ lastAlbumName = Null
    /\ lastArtBase64 = Null
    /\ lastColors = Null
    /\ timerOn = FALSE
    /\ kv = NoData
    /\ ev = "init"
    /\ okId = NullId
    /\ okStatus = Null
    /\ stoppedSince = FALSE
    /\ resumeFrom = NullId
    /\ retry = <<>>
    /\ scriptPos = 0
    /\ pubAt = {}
    /\ anyFail = FALSE
    /\ lastPublish = "none"

\* The poller at its start, with time standing still: every Date.now() is 0.
InitPoller ==
    /\ InitPollerState
    /\ clock = [running |-> FALSE, now |-> 0]

\* main has called `await poll()` (index.ts:107).
Init ==
    /\ InitPoller
    /\ InitServer
    /\ inflight = SetToBag({NewTick})
    /\ tracing = FALSE
    /\ fn = [op |-> "none"]

\* index.ts:107-109: the first poll() has settled, main calls setInterval.
MainSetInterval ==
    /\ ~timerOn
    /\ inflight = EmptyBag
    /\ timerOn' = TRUE
    /\ ev' = "other"
    /\ UNCHANGED <<lastSentTrackId, lastSentStatus, lastSeenStatus,
                   lastAlbumName, lastArtBase64, lastColors, inflight, kv,
                   okId, okStatus, stoppedSince, lastPublish, traceVars, fn,
                   serverVars, clock>>

\* index.ts:11: POLL_INTERVAL_MS, at its default.
POLL_INTERVAL_MS == 10000

\* How many intervals the clock runs for, when it runs.
MaxIntervals == 31

\* index.ts:109: the interval timer calls poll(), one interval after the
\* time before; nothing waits for the poll() calls it started before.
TimerFire ==
    /\ timerOn
    /\ BagCardinality(inflight) < MaxInFlight
    /\ clock.running => clock.now < MaxIntervals * POLL_INTERVAL_MS
    /\ inflight' = inflight (+) SetToBag({NewTick})
    /\ clock' = IF clock.running
                THEN [clock EXCEPT !.now = @ + POLL_INTERVAL_MS] ELSE clock
    /\ ev' = "other"
    /\ UNCHANGED <<lastSentTrackId, lastSentStatus, lastSeenStatus,
                   lastAlbumName, lastArtBase64, lastColors, timerOn, kv,
                   okId, okStatus, stoppedSince, lastPublish, traceVars, fn,
                   serverVars>>

\* The handler of a failed status fetch that records the player as stopped.
StatusNull_markStopped(t) ==
    /\ t.pc = "status"
    /\ inflight' = Remove(t)
    /\ lastSeenStatus' = "stopped"
    /\ ev' = "statusNull"
    /\ UNCHANGED <<lastSentTrackId, lastSentStatus,
                   lastAlbumName, lastArtBase64, lastColors, timerOn, kv,
                   okId, okStatus, stoppedSince, lastPublish, traceVars, fn,
                   serverVars, clock>>

\* tauon.ts:9-25 returns null (network error, timeout, non-OK response);
\* index.ts:37-40 returns.
StatusNull(t) ==
    /\ t.pc = "status"
    /\ inflight' = Remove(t)
    /\ ev' = "statusNull"
    /\ UNCHANGED <<lastSentTrackId, lastSentStatus, lastSeenStatus,
                   lastAlbumName, lastArtBase64, lastColors, timerOn, kv,
                   okId, okStatus, stoppedSince, lastPublish, traceVars, fn,
                   serverVars, clock>>

\* The tick after index.ts:52-74 when no fetch is awaited: the cached art, or
\* none, and the payload of index.ts:76-91 on its way.
Sending(t, status, artBase64, colors, i) ==
    [t EXCEPT !.pc = "publish", !.status = status,
              !.data = NowPlayingData(status, artBase64, colors), !.idx = i]

\* The scenario histories at an observation.
TraceStatus(status, onScript) ==
    IF tracing
    THEN /\ resumeFrom' = IF status.status = "stopped" /\ okStatus = "playing"
                          THEN okId ELSE NullId
         /\ retry' = <<>>
         /\ scriptPos' = IF onScript THEN scriptPos + 1 ELSE -1
         /\ pubAt' = IF onScript THEN pubAt ELSE {}
         /\ anyFail' = (onScript /\ anyFail)
         /\ UNCHANGED tracing
    ELSE UNCHANGED traceVars

\* tauon.ts:20 returns a status; index.ts:42-74 runs up to the next await.
StatusOk(t, status) ==
    /\ t.pc = "status"
    /\ LET decision == PollDecision(status)
           onScript == /\ tracing
                       /\ scriptPos \in 0..(Len(Script) - 1)
                       /\ Script[scriptPos + 1] = <<status.id, status.status>>
           i == IF onScript THEN scriptPos ELSE -1
       IN  /\ IF decision = "admit"
              THEN /\ UNCHANGED lastSeenStatus
                   /\ inflight' =
                        IF WantsArt(status) /\ ~HasCachedArt(status)
                        THEN Replace(t, [t EXCEPT !.pc = "art",
                                                  !.status = status,
                                                  !.idx = i])
                        ELSE IF WantsArt(status)
                        THEN Replace(t, Sending(t, status, lastArtBase64,
                                                lastColors, i))
                        ELSE Replace(t, Sending(t, status, Null, Null, i))
              ELSE /\ lastSeenStatus' = status.status
                   /\ inflight' = Remove(t)
           /\ ev' = decision
           /\ stoppedSince' = (stoppedSince \/ status.status = "stopped")
           /\ TraceStatus(status, onScript)
    /\ UNCHANGED <<lastSentTrackId, lastSentStatus, lastAlbumName,
                   lastArtBase64, lastColors, timerOn, kv, okId, okStatus, lastPublish, fn,
                   serverVars, clock>>

\* art.ts:133-198 has returned `artResult`; index.ts:63-91 runs to the publish.
ArtDone(t, artResult) ==
    /\ t.pc = "art"
    /\ LET r == ArtBlock(t.status, artResult)
       IN  /\ lastAlbumName' = r.lastAlbumName
           /\ lastArtBase64' = r.lastArtBase64
           /\ lastColors' = r.lastColors
           /\ inflight' = Replace(t, Sending(t, t.status, r.artBase64,
                                             r.colors, t.idx))
    /\ ev' = IF artResult # NoArtResult THEN "other" ELSE "artNull"
    /\ UNCHANGED <<lastSentTrackId, lastSentStatus, lastSeenStatus, timerOn,
                   kv, okId, okStatus, stoppedSince, lastPublish, traceVars, fn,
                   serverVars, clock>>

\* The fetch, the resize and the palette extraction succeeded (art.ts:190-193).
ArtOk(t) == ArtDone(t, ArtResultOf(t.status.id))

\* A non-OK response (art.ts:142-145) or anything thrown (art.ts:194-197).
ArtNull(t) == ArtDone(t, NoArtResult)

\* The Deploy API receives the POST with the right key and a JSON body:
\* handlePostNowPlaying stores the body in the slot and answers 200.
ServerStore(t) ==
    /\ t.pc = "publish"
    /\ kv' = t.data
    /\ inflight' = Replace(t, [t EXCEPT !.pc = "stored"])
    /\ ev' = "other"
    /\ accepted' = t.data
    /\ UNCHANGED <<lastSentTrackId, lastSentStatus, lastSeenStatus,
                   lastAlbumName, lastArtBase64, lastColors, timerOn,
                   okId, okStatus, stoppedSince, lastPublish, traceVars, fn, reqs, resp,
                   clock>>

\* index.ts:93-98 with `lastSeenStatus = status.status` forgotten.
PublishOk_seenKept(t) ==
    /\ t.pc = "stored"
    /\ lastSentTrackId' = t.status.id
    /\ lastSentStatus' = t.status.status
    /\ inflight' = Remove(t)
    /\ ev' = "publishOk"
    /\ lastPublish' = "ok"
    /\ okId' = t.status.id
    /\ okStatus' = t.status.status
    /\ stoppedSince' = FALSE
    /\ pubAt' = IF tracing /\ t.idx >= 0 /\ scriptPos >= 0
                THEN pubAt \cup {t.idx} ELSE pubAt
    /\ UNCHANGED <<lastSeenStatus, lastAlbumName, lastArtBase64, lastColors,
                   timerOn, kv, tracing, resumeFrom, retry, scriptPos,
                   anyFail, fn, serverVars, clock>>

\* deploy.ts:231 returns true; index.ts:93-98.
PublishOk(t) ==
    /\ t.pc = "stored"
    /\ lastSentTrackId' = t.status.id
    /\ lastSentStatus' = t.status.status
    /\ lastSeenStatus' = t.status.status
    /\ inflight' = Remove(t)
    /\ ev' = "publishOk"
    /\ lastPublish' = "ok"
    /\ okId' = t.status.id
    /\ okStatus' = t.status.status
    /\ stoppedSince' = FALSE
    /\ pubAt' = IF tracing /\ t.idx >= 0 /\ scriptPos >= 0
                THEN pubAt \cup {t.idx} ELSE pubAt
    /\ UNCHANGED <<lastAlbumName, lastArtBase64, lastColors, timerOn, kv,
                   tracing, resumeFrom, retry, scriptPos, anyFail, fn,
                   serverVars, clock>>

\* index.ts:93-98 run whatever sendToDeploy returned.
PublishFail_advances(t) ==
    /\ t.pc \in {"publish", "stored"}
    /\ lastSentTrackId' = t.status.id
    /\ lastSentStatus' = t.status.status
    /\ lastSeenStatus' = t.status.status
    /\ inflight' = Remove(t)
    /\ ev' = "publishFail"
    /\ lastPublish' = "failed"
    /\ retry' = IF tracing THEN <<t.status.id, t.status.status>> ELSE retry
    /\ anyFail' = (anyFail \/ (tracing /\ t.idx >= 0 /\ scriptPos >= 0))
    /\ UNCHANGED <<lastAlbumName, lastArtBase64, lastColors, timerOn, kv,
                   okId, okStatus, stoppedSince, tracing, resumeFrom,
                   scriptPos, pubAt, fn, serverVars, clock>>

\* index.ts:91 calling sendToDeploy again when it returned false.
PublishFail_retries(t) ==
    /\ t.pc \in {"publish", "stored"}
    /\ inflight' = Replace(t, [t EXCEPT !.pc = "publish"])
    /\ ev' = "publishFail"
    /\ lastPublish' = "failed"
    /\ retry' = IF tracing THEN <<t.status.id, t.status.status>> ELSE retry
    /\ anyFail' = (anyFail \/ (tracing /\ t.idx >= 0 /\ scriptPos >= 0))
    /\ UNCHANGED <<lastSentTrackId, lastSentStatus, lastSeenStatus,
                   lastAlbumName, lastArtBase64, lastColors, timerOn, kv,
                   okId, okStatus, stoppedSince, tracing, resumeFrom,
                   scriptPos, pubAt, fn, serverVars, clock>>

\* deploy.ts:226-235 returns false: the request never arrived or was answered
\* non-2xx (pc = "publish"), or the answer was lost or late (pc = "stored").
\* index.ts:93 skips the block.
PublishFail(t) ==
    /\ t.pc \in {"publish", "stored"}
    /\ inflight' = Remove(t)
    /\ ev' = "publishFail"
    /\ lastPublish' = "failed"
    /\ retry' = IF tracing THEN <<t.status.id, t.status.status>> ELSE retry
    /\ anyFail' = (anyFail \/ (tracing /\ t.idx >= 0 /\ scriptPos >= 0))
    /\ UNCHANGED <<lastSentTrackId, lastSentStatus, lastSeenStatus,
                   lastAlbumName, lastArtBase64, lastColors, timerOn, kv,
                   okId, okStatus, stoppedSince, tracing, resumeFrom,
                   scriptPos, pubAt, fn,
                   serverVars, clock>>

Next ==
    \/ MainSetInterval
    \/ TimerFire
    \/ \E t \in Ticks : StatusNull(t)
    \/ \E t \in Ticks : \E status \in TauonStatus : StatusOk(t, status)
    \/ \E t \in Ticks : ArtOk(t)
    \/ \E t \in Ticks : ArtNull(t)
    \/ \E t \in Ticks : ServerStore(t)
    \/ \E t \in Ticks : PublishOk(t)
    \/ \E t \in Ticks : PublishFail(t)

Spec == Init /\ [][Next]_vars

\* The same poller with the scenario histories kept.
InitTrace ==
    /\ InitPoller
    /\ InitServer
    /\ inflight = SetToBag({NewTick})
    /\ tracing = TRUE
    /\ fn = [op |-> "none"]

SpecTrace == InitTrace /\ [][Next]_vars

----------------------------------------------------------------------------
\* shouldUpdate applied to every memory and observation of small sets.

InitShouldUpdate ==
    /\ InitPoller
    /\ InitServer
    /\ inflight = EmptyBag
    /\ tracing = FALSE
    /\ fn \in [op : {"shouldUpdate"},
               trackId : {5, 7},
               status : Statuses,
               lastSentTrackId : {NullId, 5, 7},
               lastSentStatus : {Null} \cup Statuses,
               lastSeenStatus : {Null} \cup Statuses,
               result : {"pending"}]

CallShouldUpdate ==
    /\ fn.op = "shouldUpdate"
    /\ fn.result = "pending"
    /\ fn' = [fn EXCEPT !.result =
                IF shouldUpdate([id |-> fn.trackId, status |-> fn.status],
                                fn.lastSentTrackId, fn.lastSentStatus,
                                fn.lastSeenStatus)
                THEN "publish" ELSE "skip"]
    /\ UNCHANGED <<pollerVars, histVars, traceVars, serverVars, clock>>

NextShouldUpdate == CallShouldUpdate

SpecShouldUpdate == InitShouldUpdate /\ [][NextShouldUpdate]_vars

----------------------------------------------------------------------------
\* The Deploy API (server.ts): handleRequest calls that interleave at their
\* awaits over the one slot kv.

\* How many handleRequest calls may be suspended at an await at the same time.
MaxRequests == 2

\* The API_KEY the server was started with (server.ts:4).
API_KEY == "secret"

\* `undefined`: a field a stored JSON value does not have.
Undefined == "undefined"

\* Authorization header values of a request; Null: the header is missing.
AuthHeaders ==
    {Null, "Bearer secret", "Bearer wrong", "bearer secret", "secret",
     "Bearer secret x"}

\* String.prototype.split(" ") on the header values.
Split(s) ==
    CASE s = "Bearer secret" -> <<"Bearer", "secret">>
      [] s = "Bearer wrong" -> <<"Bearer", "wrong">>
      [] s = "bearer secret" -> <<"bearer", "secret">>
      [] s = "Bearer secret x" -> <<"Bearer", "secret", "x">>
      [] OTHER -> <<s>>

\* Request bodies: three JSON texts and one text that is not JSON.
BodyTexts == {"{five}", "{seven}", "{junk}", "{five"}

\* req.json(): the parsed value, or a SyntaxError thrown.  "{junk}" is valid
\* JSON of an object with a status and none of the text fields.
JsonParse(text) ==
    CASE text = "{five}" ->
           [ok |-> TRUE,
            value |-> [title |-> "five", album |-> "A", status |-> "playing",
                       artBase64 |-> "jpeg5", colors |-> "palette5",
                       updatedAt |-> 1000]]
      [] text = "{seven}" ->
           [ok |-> TRUE,
            value |-> [title |-> "seven", album |-> "B", status |-> "paused",
                       artBase64 |-> Null, colors |-> Null,
                       updatedAt |-> 2000]]
      [] text = "{junk}" ->
           [ok |-> TRUE,
            value |-> [title |-> Undefined, album |-> Undefined,
                       status |-> "playing", artBase64 |-> Undefined,
                       colors |-> Undefined, updatedAt |-> NullId]]
      [] OTHER -> [ok |-> FALSE, value |-> NoData]

Methods == {"GET", "POST", "OPTIONS", "DELETE"}

Paths == {"/now-playing.svg", "/widget.svg", "/preview", "/api/now-playing", "/"}

\* req.url, as new URL(req.url) splits it into pathname and search.
Urls ==
    [path : Paths, search : {""}]
        \cup [path : {"/now-playing.svg", "/widget.svg"},
              search : {"?align=center"}]

\* The requests a client may send: any method on any url, and POSTs of
\* /api/now-playing with every header and body.
Requests ==
    {[method |-> m, url |-> u, auth |-> Null, body |-> ""] :
        m \in Methods, u \in Urls}
    \cup {[method |-> "POST", url |-> [path |-> "/api/now-playing", search |-> ""],
           auth |-> a, body |-> b] : a \in AuthHeaders, b \in BodyTexts}

\* server.ts:17-23 that accepts any header ending in the key.
validateAuth_anyScheme(req) ==
    /\ Truthy(req.auth)
    /\ Split(req.auth)[Len(Split(req.auth))] = API_KEY

\* server.ts:17-23
validateAuth(req) ==
    LET auth == req.auth
    IN  IF ~Truthy(auth) THEN FALSE
        ELSE LET parts == Split(auth)
             IN  IF Len(parts) # 2 \/ parts[1] # "Bearer" THEN FALSE
                 ELSE parts[2] = API_KEY

\* A store that keeps the fields of the old value the new one leaves null.
storeNowPlaying_merge(slot, data) ==
    [f \in DOMAIN data |->
        IF f = "updatedAt" THEN data[f]
        ELSE IF data[f] = Null THEN slot[f] ELSE data[f]]

\* server.ts:25-30: kv.set(KV_KEY, data) replaces the value of the slot.
storeNowPlaying(slot, data) == data

\* server.ts:370-402 with the widget served at /widget.svg.
Route_widgetSvg(req) ==
    LET path == req.url.path
    IN  IF req.method = "OPTIONS" THEN "options"
        ELSE IF path = "/widget.svg" /\ req.method = "GET" THEN "svg"
        ELSE IF path = "/preview" /\ req.method = "GET" THEN "preview"
        ELSE IF path = "/api/now-playing" /\ req.method = "POST" THEN "post"
        ELSE IF path = "/api/now-playing" /\ req.method = "GET" THEN "get"
        ELSE IF path = "/" THEN "root"
        ELSE "notfound"

\* server.ts:359-360, 368-402: which branch of handleRequest a request takes.
Route(req) ==
    LET path == req.url.path
    IN  IF req.method = "OPTIONS" THEN "options"
        ELSE IF path = "/now-playing.svg" /\ req.method = "GET" THEN "svg"
        ELSE IF path = "/preview" /\ req.method = "GET" THEN "preview"
        ELSE IF path = "/api/now-playing" /\ req.method = "POST" THEN "post"
        ELSE IF path = "/api/now-playing" /\ req.method = "GET" THEN "get"
        ELSE IF path = "/" THEN "root"
        ELSE "notfound"

\* new Response(body, {status, headers}) of a handler, before handleRequest
\* adds its headers.
Response(req, status, contentType, cacheControl, body, value) ==
    [req |-> req, status |-> status, contentType |-> contentType,
     cacheControl |-> cacheControl, cors |-> FALSE, body |-> body,
     value |-> value]

\* server.ts:405-414: the response again, with the three corsHeaders set.
WithCors(response) == [response EXCEPT !.cors = TRUE]

\* server.ts:415-421: the catch of handleRequest.
InternalError(req) ==
    Response(req, 500, "application/json", Null, "Internal server error",
             NoData)

\* svg.ts: generateNowPlayingSvg throws a TypeError when the value has a track
\* (status playing or paused) and its text fields are not strings.
RenderThrows(data) ==
    /\ data # NoData
    /\ data.status \in {"playing", "paused"}
    /\ data.title = Undefined

nonServerVars ==
    <<lastSentTrackId, lastSentStatus, lastSeenStatus, lastAlbumName,
      lastArtBase64, lastColors, inflight, timerOn, histVars, traceVars, fn,
      clock>>

Pending == BagToSet(reqs)
Finish(r) == reqs (-) SetToBag({r})

\* server.ts:358-403: handleRequest up to its first await, or to its return
\* when the branch awaits nothing (OPTIONS, /, 404, and the 401 of
\* handlePostNowPlaying at server.ts:41-46).
HandleRequest(req) ==
    LET route == Route(req)
    IN  /\ IF route = "options"
           THEN /\ resp' = WithCors(Response(req, 204, Null, Null, Null, NoData))
                /\ UNCHANGED reqs
           ELSE IF route = "root"
           THEN /\ resp' = WithCors(Response(req, 200, "application/json",
                                             Null, "endpoints", NoData))
                /\ UNCHANGED reqs
           ELSE IF route = "notfound"
           THEN /\ resp' = WithCors(Response(req, 404, "application/json",
                                             Null, "Not found", NoData))
                /\ UNCHANGED reqs
           ELSE IF route = "post" /\ ~validateAuth(req)
           THEN /\ resp' = WithCors(Response(req, 401, "application/json",
                                             Null, "Unauthorized", NoData))
                /\ UNCHANGED reqs
           ELSE /\ BagCardinality(reqs) < MaxRequests
                /\ reqs' = reqs (+) SetToBag({[req |-> req, pc |-> "start",
                                               read |-> NoData]})
                /\ UNCHANGED resp
        /\ UNCHANGED <<kv, accepted, nonServerVars>>

\* server.ts:32-35 returns the value of the slot: handleGetNowPlaying answers
\* with it (server.ts:271-280); handleGetSvg and handleGetPreview go on to
\* buildSvgConfig.
GetNowPlaying(r) ==
    /\ r.pc = "start"
    /\ Route(r.req) \in {"svg", "preview", "get"}
    /\ IF Route(r.req) = "get"
       THEN /\ resp' = WithCors(Response(r.req, 200, "application/json",
                                         "no-cache", "json", kv))
            /\ reqs' = Finish(r)
       ELSE /\ reqs' = Finish(r) (+) SetToBag({[r EXCEPT !.pc = "config",
                                                        !.read = kv]})
            /\ UNCHANGED resp
    /\ UNCHANGED <<kv, accepted, nonServerVars>>

\* kv.get rejects: the error reaches the catch of handleRequest.
GetNowPlayingThrows(r) ==
    /\ r.pc = "start"
    /\ Route(r.req) \in {"svg", "preview", "get"}
    /\ resp' = InternalError(r.req)
    /\ reqs' = Finish(r)
    /\ UNCHANGED <<kv, accepted, nonServerVars>>

\* server.ts:259-268, 285-355: the value read is rendered and answered.
RenderSvg(r) ==
    /\ r.pc = "config"
    /\ resp' =
         IF RenderThrows(r.read) THEN InternalError(r.req)
         ELSE IF Route(r.req) = "svg"
         THEN WithCors(Response(r.req, 200, "image/svg+xml", "s-maxage=1",
                                "svg", r.read))
         ELSE WithCors(Response(r.req, 200, "text/html; charset=utf-8",
                                "no-cache", "html", r.read))
    /\ reqs' = Finish(r)
    /\ UNCHANGED <<kv, accepted, nonServerVars>>

\* server.ts:48-60 of an authorized POST: the body is parsed and stored, or
\* the SyntaxError of req.json() is caught.
PostNowPlaying(r) ==
    /\ r.pc = "start"
    /\ Route(r.req) = "post"
    /\ LET parsed == JsonParse(r.req.body)
       IN  IF parsed.ok
           THEN /\ kv' = storeNowPlaying(kv, parsed.value)
                /\ accepted' = parsed.value
                /\ resp' = WithCors(Response(r.req, 200, "application/json",
                                             Null, "success", NoData))
           ELSE /\ resp' = WithCors(Response(r.req, 400, "application/json",
                                             Null, "Invalid JSON", NoData))
                /\ UNCHANGED <<kv, accepted>>
    /\ reqs' = Finish(r)
    /\ UNCHANGED nonServerVars

\* kv.set rejects inside the try of server.ts:48-60: the same catch answers.
StoreNowPlayingThrows(r) ==
    /\ r.pc = "start"
    /\ Route(r.req) = "post"
    /\ JsonParse(r.req.body).ok
    /\ resp' = WithCors(Response(r.req, 400, "application/json", Null,
                                 "Invalid JSON", NoData))
    /\ reqs' = Finish(r)
    /\ UNCHANGED <<kv, accepted, nonServerVars>>

InitServerSpec ==
    /\ InitPoller
    /\ InitServer
    /\ inflight = EmptyBag
    /\ tracing = FALSE
    /\ fn = [op |-> "none"]

NextServer ==
    \/ \E req \in Requests : HandleRequest(req)
    \/ \E r \in Pending : GetNowPlaying(r)
    \/ \E r \in Pending : GetNowPlayingThrows(r)
    \/ \E r \in Pending : RenderSvg(r)
    \/ \E r \in Pending : PostNowPlaying(r)
    \/ \E r \in Pending : StoreNowPlayingThrows(r)

SpecServer == InitServerSpec /\ [][NextServer]_vars

----------------------------------------------------------------------------
\* The renderer (svg/icons.ts with text.ts): generateNowPlayingSvg as a
\* function of the snapshot, the config and the clock, its result being the
\* parts of the SVG that depend on them.

\* The longest title rendered.
MaxTitleLen == 12

\* A text of n characters; texts are sequences of characters.
Text(n) == [i \in 1..n |-> "x"]

\* The titles rendered: every length up to MaxTitleLen, and one with
\* characters XML reserves.
Titles == {Text(n) : n \in 0..MaxTitleLen} \cup {<<"<", "&", "'">>}

\* text.ts:9-13: what each character of the five is replaced by.
EscapeChar(c) ==
    CASE c = "&" -> <<"&", "a", "m", "p", ";">>
      [] c = "<" -> <<"&", "l", "t", ";">>
      [] c = ">" -> <<"&", "g", "t", ";">>
      [] c = "\"" -> <<"&", "q", "u", "o", "t", ";">>
      [] c = "'" -> <<"&", "a", "p", "o", "s", ";">>
      [] OTHER -> <<c>>

RECURSIVE ReplaceAll(_, _)
\* String.prototype.replace(/c/g, EscapeChar(c))
ReplaceAll(text, c) ==
    IF text = <<>> THEN <<>>
    ELSE (IF Head(text) = c THEN EscapeChar(c) ELSE <<Head(text)>>)
         \o ReplaceAll(Tail(text), c)

\* text.ts:7-14 with the replacement of & made last.
escapeXml_ampLast(text) ==
    ReplaceAll(ReplaceAll(ReplaceAll(ReplaceAll(ReplaceAll(
        text, "<"), ">"), "\""), "'"), "&")

\* text.ts:7-14: five replacements, one after the other, & first.
escapeXml(text) ==
    ReplaceAll(ReplaceAll(ReplaceAll(ReplaceAll(ReplaceAll(
        text, "&"), "<"), ">"), "\""), "'")

\* text.ts:23-26 that keeps maxLength characters before the dots.
truncateText_noRoomForDots(text, maxLength) ==
    IF Len(text) <= maxLength THEN text
    ELSE SubSeq(text, 1, maxLength) \o <<".", ".", ".">>

\* text.ts:23-26
truncateText(text, maxLength) ==
    IF Len(text) <= maxLength THEN text
    ELSE SubSeq(text, 1, maxLength - 3) \o <<".", ".", ".">>

\* text.ts:35-37, in hundredths of a pixel: text.length * (fontSize * 0.55).
estimateTextWidth(text, fontSize) == Len(text) * (fontSize * 55)

\* `null` of `NowPlayingData | null`, and the snapshots given to the renderer.
\* The characters of the strings that the payloads carry as one value.
Chars(text) ==
    CASE text = "five" -> <<"f", "i", "v", "e">>
      [] text = "seven" -> <<"s", "e", "v", "e", "n">>
      [] text = "A" -> <<"A">>
      [] text = "B" -> <<"B">>
      [] text = "jpeg" -> <<"/", "9", "j", "=">>
      [] text = "jpeg5" -> <<"/", "9", "j", "5">>
      [] text = "jpeg7" -> <<"/", "9", "j", "7">>
      [] text = "\"/><script" ->
           <<"\"", "/", ">", "<", "s", "c", "r", "i", "p", "t">>
      [] text = "" -> <<>>
      [] OTHER -> <<"U", "n", "k", "n", "o", "w", "n">>

\* `null` of `ColorPalette | null`.
NoPalette ==
    [present |-> FALSE, dominant |-> <<>>, accent |-> <<>>, highlight |-> <<>>]

\* A palette as the extraction makes it.
Palette5 ==
    [present |-> TRUE, dominant |-> <<"#", "8", "0", "4", "0", "2", "0">>,
     accent |-> <<"#", "2", "2", "c", "5", "5", "e">>,
     highlight |-> <<"#", "f", "f", "e", "e", "d", "d">>]

\* A color value that is not a color: " > < &.
NotAColor == <<"\"", ">", "<", "&">>

\* types.ts:43-47: the palettes of the stored snapshots: none, an extracted
\* one, one with an empty highlight, and three with one value that is not a
\* color.
Palettes ==
    { NoPalette, Palette5,
      [Palette5 EXCEPT !.highlight = <<>>],
      [Palette5 EXCEPT !.dominant = NotAColor],
      [Palette5 EXCEPT !.accent = NotAColor],
      [Palette5 EXCEPT !.highlight = NotAColor] }

\* `null` of `NowPlayingData | null`, and the snapshots given to the renderer.
NullSnapshot ==
    [present |-> FALSE, title |-> <<>>, artist |-> <<>>, album |-> <<>>,
     status |-> Null, artBase64 |-> Null, colors |-> NoPalette,
     updatedAt |-> 0]

Snapshots ==
    [present : {TRUE}, title : Titles, artist : {<<"a">>}, album : {<<"b">>},
     status : Statuses, artBase64 : {Null, "", "jpeg5"},
     colors : {NoPalette}, updatedAt : {1000}]

\* Snapshots as any holder of the key can store them: texts, art and colors
\* with the characters XML reserves.
MarkupSnapshots ==
    [present : {TRUE}, title : {Text(2), <<"<", "&", "\"">>},
     artist : {<<"a">>, <<"<", "a">>}, album : {<<"b">>, <<"&", ">">>},
     status : Statuses, artBase64 : {Null, "jpeg5", "\"/><script"},
     colors : Palettes, updatedAt : {1000}]

\* Date.now() at the render: before, at and after updatedAt + 5 minutes.
Clock == {0, 1000, 300999, 301000, 301001, 900000}

\* SvgConfig: the fields the layout and the text block read.  The widths give
\* a text area of 576, 106 and 0 pixels beside an album box of 150.
SvgConfigs ==
    [width : {800, 330, 190}, height : {200}, albumSize : {150},
     cardBorder : {<<"#", "2", "7", "2", "7", "2", "a">>},
     albumPosition : {"left", "right"},
     textAlign : {"left", "center", "right"},
     showStatus : BOOLEAN, showTitle : BOOLEAN,
     showArtist : BOOLEAN, showAlbum : BOOLEAN]

Max(a, b) == IF a >= b THEN a ELSE b

\* svg/icons.ts:44 with >= for >.
IsStale_inclusive(data, now) ==
    IF data.present THEN now - data.updatedAt >= 5 * 60 * 1000 ELSE TRUE

\* svg/icons.ts:44
IsStale(data, now) ==
    IF data.present THEN now - data.updatedAt > 5 * 60 * 1000 ELSE TRUE

\* svg/icons.ts:47 without its `data &&`.
HasTrack_ignoresNull(data, now) ==
    \/ data.status = "playing" /\ ~IsStale(data, now)
    \/ data.status = "paused" /\ ~IsStale(data, now)
    \/ IsStale(data, now)

\* svg/icons.ts:45-47
HasTrack(data, now) ==
    LET isStale == IsStale(data, now)
        isPlaying == data.present /\ data.status = "playing" /\ ~isStale
        isPaused == data.present /\ data.status = "paused" /\ ~isStale
    IN  data.present /\ (isPlaying \/ isPaused \/ isStale)

\* svg/icons.ts:301 showing the image for any snapshot with art.
ShowsImage_anyStatus(data, now) == data.present /\ Truthy(data.artBase64)

\* svg/icons.ts:301: hasTrack && data.artBase64
ShowsImage(data, now) == HasTrack(data, now) /\ Truthy(data.artBase64)

\* svg/icons.ts:57-73: textAreaWidth.
TextAreaWidth(config) ==
    LET padding == 26
        albumX == IF config.albumPosition = "right"
                  THEN config.width - padding - config.albumSize
                  ELSE padding
        textAreaLeft == IF config.albumPosition = "right" THEN padding
                        ELSE albumX + config.albumSize + 22
        textAreaRight == IF config.albumPosition = "right" THEN albumX - 22
                         ELSE config.width - padding
    IN  Max(0, textAreaRight - textAreaLeft)

\* svg/icons.ts:103-104 as svg.ts:199 has it: the alignment is not looked at.
TitleScrollNeeded_anyAlign(data, config) ==
    /\ TextAreaWidth(config) > 0
    /\ estimateTextWidth(data.title, 24) > TextAreaWidth(config) * 100

\* svg/icons.ts:94-104
TitleScrollNeeded(data, config) ==
    LET titleFontSize == 24
        titleClipWidth == TextAreaWidth(config)
        titleText == data.title
    IN  /\ config.textAlign # "center"
        /\ titleClipWidth > 0
        /\ estimateTextWidth(titleText, titleFontSize) > titleClipWidth * 100

\* svg/icons.ts:105-108
TitleMaxChars(config) ==
    Max(10, (TextAreaWidth(config) * 100) \div (24 * 55))

\* svg/icons.ts:40-317: the parts of the SVG that depend on the arguments.
\* svg/icons.ts:105-116: titleMaxChars, artistMaxChars, albumMaxChars.
TextBudgets(config) ==
    [title |-> Max(10, (TextAreaWidth(config) * 100) \div (24 * 55)),
     artist |-> Max(10, (TextAreaWidth(config) * 100) \div (15 * 55)),
     album |-> Max(10, (TextAreaWidth(config) * 100) \div (13 * 55))]

\* parseInt and Math.round on what is not a number.
NaN == -1

HexDigits ==
    <<"0", "1", "2", "3", "4", "5", "6", "7", "8", "9",
      "a", "b", "c", "d", "e", "f">>

\* The value of a hexadecimal digit, NaN for any other character.
HexValue(c) ==
    CASE c = "0" -> 0 [] c = "1" -> 1 [] c = "2" -> 2 [] c = "3" -> 3
      [] c = "4" -> 4 [] c = "5" -> 5 [] c = "6" -> 6 [] c = "7" -> 7
      [] c = "8" -> 8 [] c = "9" -> 9 [] c = "a" -> 10 [] c = "b" -> 11
      [] c = "c" -> 12 [] c = "d" -> 13 [] c = "e" -> 14 [] c = "f" -> 15
      [] OTHER -> NaN

\* parseInt(text, 16) of a slice of at most two characters: the digits it
\* starts with, NaN when it starts with none.
ParseInt16(text) ==
    IF Len(text) = 0 \/ HexValue(text[1]) = NaN THEN NaN
    ELSE IF Len(text) = 1 \/ HexValue(text[2]) = NaN THEN HexValue(text[1])
    ELSE 16 * HexValue(text[1]) + HexValue(text[2])

\* String.prototype.replace("#", ""): the first # is dropped.
DropFirstHash(hex) ==
    IF hex # <<>> /\ Head(hex) = "#" THEN Tail(hex)
    ELSE IF \E i \in 1..Len(hex) : hex[i] = "#"
    THEN LET i == CHOOSE k \in 1..Len(hex) :
                     hex[k] = "#" /\ \A m \in 1..(k - 1) : hex[m] # "#"
         IN  SubSeq(hex, 1, i - 1) \o SubSeq(hex, i + 1, Len(hex))
    ELSE hex

\* String.prototype.slice(from, to) with 0 <= from <= to.
Slice(text, from, to) ==
    SubSeq(text, from + 1, IF to <= Len(text) THEN to ELSE Len(text))

\* colors.ts:1-7
hexToRgb(hex) ==
    LET normalized == DropFirstHash(hex)
    IN  [r |-> ParseInt16(Slice(normalized, 0, 2)),
         g |-> ParseInt16(Slice(normalized, 2, 4)),
         b |-> ParseInt16(Slice(normalized, 4, 6))]

\* Number.prototype.toString(16).padStart(2, "0")
Hex2(n) ==
    IF n = NaN THEN <<"N", "a", "N">>
    ELSE IF n < 16 THEN <<"0", HexDigits[n + 1]>>
    ELSE <<HexDigits[(n \div 16) + 1], HexDigits[(n % 16) + 1]>>

\* colors.ts:9-13
rgbToHex(r, g, b) == <<"#">> \o Hex2(r) \o Hex2(g) \o Hex2(b)

\* colors.ts:23-31, the ratio in hundredths; the channels are within 0..255
\* before the clamp, or NaN.
mixColors(hexA, hexB, ratio) ==
    LET a == hexToRgb(hexA)
        b == hexToRgb(hexB)
        Mix(x, y) == IF x = NaN \/ y = NaN THEN NaN
                     ELSE (x * (100 - ratio) + y * ratio + 50) \div 100
    IN  rgbToHex(Mix(a.r, b.r), Mix(a.g, b.g), Mix(a.b, b.b))

\* svg/icons.ts:50-55 with the stored values used as they are.
CardColors(data, config) ==
    LET dominantColor == IF data.colors.present /\ data.colors.dominant # <<>>
                         THEN data.colors.dominant ELSE config.cardBorder
        accentColor == IF data.colors.present /\ data.colors.accent # <<>>
                       THEN data.colors.accent
                       ELSE <<"#", "2", "2", "c", "5", "5", "e">>
    IN  [accentColor |-> accentColor,
         baseDark |-> mixColors(dominantColor,
                                <<"#", "0", "5", "0", "5", "0", "5">>, 82),
         midDark |-> mixColors(dominantColor,
                               <<"#", "0", "d", "0", "f", "1", "2">>, 70),
         highlight |-> IF data.colors.present /\ data.colors.highlight # <<>>
                       THEN data.colors.highlight
                       ELSE mixColors(accentColor,
                                      <<"#", "f", "f", "f", "f", "f", "f">>,
                                      45)]

\* svg/icons.ts:40-317, as the parts of the markup that depend on the
\* snapshot.
generateNowPlayingSvg(data, config, now) ==
    LET isStale == IsStale(data, now)
        isPlaying == data.present /\ data.status = "playing" /\ ~isStale
        isPaused == data.present /\ data.status = "paused" /\ ~isStale
        hasTrack == HasTrack(data, now)
        scroll == TitleScrollNeeded(data, config)
        colors == CardColors(data, config)
    IN  [isStale |-> isStale, isPlaying |-> isPlaying, isPaused |-> isPaused,
         hasTrack |-> hasTrack,
         playingWave |-> isPlaying,
         pill |-> IF hasTrack /\ config.showStatus
                  THEN (IF isStale THEN "LAST PLAYED"
                        ELSE IF isPlaying THEN "NOW PLAYING" ELSE "PAUSED")
                  ELSE "",
         titleNodes |-> IF hasTrack /\ config.showTitle
                        THEN (IF scroll
                              THEN <<escapeXml(data.title), escapeXml(data.title)>>
                              ELSE <<escapeXml(truncateText(data.title,
                                                 TitleMaxChars(config)))>>)
                        ELSE <<>>,
         titleAnimated |-> hasTrack /\ config.showTitle /\ scroll,
         artistLine |-> hasTrack /\ config.showArtist,
         albumLine |-> hasTrack /\ config.showAlbum,
         artistText |-> IF hasTrack /\ config.showArtist
                        THEN escapeXml(truncateText(data.artist,
                                                    TextBudgets(config).artist))
                        ELSE <<>>,
         albumText |-> IF hasTrack /\ config.showAlbum
                       THEN escapeXml(truncateText(data.album,
                                                   TextBudgets(config).album))
                       ELSE <<>>,
         stopColors |-> <<colors.baseDark, colors.midDark, colors.highlight,
                          colors.accentColor>>,
         fill |-> colors.midDark,
         glowColor |-> colors.highlight,
         waveColor |-> colors.highlight,
         imageHref |-> IF ShowsImage(data, now)
                       THEN <<"d", "a", "t", "a", ":", "i", "m", "a", "g", "e",
                              "/", "j", "p", "e", "g", ";", "b", "a", "s",
                              "e", "6", "4", ",">> \o Chars(data.artBase64)
                       ELSE <<>>,
         nothingPlaying |-> ~hasTrack,
         image |-> ShowsImage(data, now),
         placeholder |-> ~ShowsImage(data, now)]

InitRender ==
    /\ InitPoller
    /\ InitServer
    /\ inflight = EmptyBag
    /\ tracing = FALSE
    /\ fn \in [op : {"generateNowPlayingSvg"},
               data : Snapshots \cup {NullSnapshot},
               config : SvgConfigs,
               now : Clock,
               done : {FALSE}]

CallGenerateNowPlayingSvg ==
    /\ fn.op = "generateNowPlayingSvg"
    /\ ~fn.done
    /\ fn' = [op |-> fn.op, data |-> fn.data, config |-> fn.config,
              now |-> fn.now, done |-> TRUE,
              svg |-> generateNowPlayingSvg(fn.data, fn.config, fn.now)]
    /\ UNCHANGED <<pollerVars, histVars, traceVars, serverVars, clock>>

NextRender == CallGenerateNowPlayingSvg

SpecRender == InitRender /\ [][NextRender]_vars

----------------------------------------------------------------------------
\* The text helpers (text.ts, waves.ts) and the character budgets of the
\* renderer, each applied to arguments of small sets.

\* The largest maxLength given to truncateText.
MaxChars == 11

\* The longest text given to escapeXml.
MaxEscLen == 3

\* The longest run of one character given to hashString.
MaxHashLen == 3

RECURSIVE SeqsUpTo(_, _)
\* The sequences over alphabet of length at most n.
SeqsUpTo(alphabet, n) ==
    IF n = 0 THEN {<<>>}
    ELSE LET shorter == SeqsUpTo(alphabet, n - 1)
         IN  shorter \cup {<<c>> \o t : c \in alphabet, t \in shorter}

\* Texts of the five characters escapeXml replaces, of ; and of a letter.
EscTexts == SeqsUpTo({"&", "<", ">", "\"", "'", ";", "a"}, MaxEscLen)

\* Strings as their UTF-16 code units, as charCodeAt reads them: runs of 'a'
\* and of ￿, 'tauon', five ￿ (the sum wraps), and a string whose
\* accumulated value is exactly -2^31.
HashInputs ==
    SeqsUpTo({97, 65535}, MaxHashLen)
        \cup { <<116, 97, 117, 111, 110>>,
               <<65535, 65535, 65535, 65535, 65535>>,
               <<2325, 9, 30, 12, 2>> }

\* A 32-bit integer is kept as its two 16-bit halves <<hi, lo>> (two's
\* complement), the model checker's own integers being 32 bits wide.
Half == 65536

\* a + c for a code unit c, modulo 2^32.
Add32(a, c) ==
    LET lo == a[2] + c
    IN  <<(a[1] + lo \div Half) % Half, lo % Half>>

\* a - b modulo 2^32.
Sub32(a, b) ==
    LET lo == a[2] - b[2]
        borrow == IF lo < 0 THEN 1 ELSE 0
    IN  <<(a[1] - b[1] - borrow + 2 * Half) % Half, (lo + Half) % Half>>

\* a << 5 on 32 bits.
Shl5(a) == <<(a[1] * 32 + a[2] \div 2048) % Half, (a[2] * 32) % Half>>

\* The JavaScript number a 32-bit pattern stands for: its sign and magnitude.
Int32ToNumber(a) ==
    IF a[1] >= Half \div 2
    THEN [negative |-> TRUE, magnitude |-> Sub32(<<0, 0>>, a)]
    ELSE [negative |-> FALSE, magnitude |-> a]

RECURSIVE HashLoop(_, _)
\* waves.ts:52-54: hash = ((hash << 5) - hash + input.charCodeAt(i)) | 0
HashLoop(hash, input) ==
    IF input = <<>> THEN hash
    ELSE HashLoop(Add32(Sub32(Shl5(hash), hash), Head(input)), Tail(input))

\* waves.ts:50-56 with the absolute value taken on 32 bits.
hashString_int32Abs(input) ==
    LET hash == Int32ToNumber(HashLoop(<<0, 0>>, input))
    IN  [negative |-> hash.negative /\ hash.magnitude = <<Half \div 2, 0>>,
         magnitude |-> hash.magnitude]

\* waves.ts:50-56: Math.abs of the accumulated 32-bit value, a double.
hashString(input) ==
    LET hash == Int32ToNumber(HashLoop(<<0, 0>>, input))
    IN  [negative |-> FALSE, magnitude |-> hash.magnitude]

\* The widths, album sizes and positions the budgets are computed for.
BudgetConfigs ==
    [width : {0, 190, 330, 800, 2000}, albumSize : {0, 90, 150, 400},
     albumPosition : {"left", "right"}]

InitText ==
    /\ InitPoller
    /\ InitServer
    /\ inflight = EmptyBag
    /\ tracing = FALSE
    /\ \/ fn \in [op : {"truncateText"}, text : {Text(n) : n \in 0..MaxTitleLen},
                  maxLength : 0..MaxChars, done : {FALSE}]
       \/ fn \in [op : {"textBudgets"}, config : BudgetConfigs, done : {FALSE}]
       \/ fn \in [op : {"escapeXml"}, text : EscTexts, done : {FALSE}]
       \/ fn \in [op : {"hashString"}, input : HashInputs, done : {FALSE}]

CallTruncateText ==
    /\ fn.op = "truncateText"
    /\ ~fn.done
    /\ fn' = [op |-> fn.op, text |-> fn.text, maxLength |-> fn.maxLength,
              done |-> TRUE, result |-> truncateText(fn.text, fn.maxLength)]
    /\ UNCHANGED <<pollerVars, histVars, traceVars, serverVars, clock>>

CallTextBudgets ==
    /\ fn.op = "textBudgets"
    /\ ~fn.done
    /\ fn' = [op |-> fn.op, config |-> fn.config, done |-> TRUE,
              result |-> TextBudgets(fn.config)]
    /\ UNCHANGED <<pollerVars, histVars, traceVars, serverVars, clock>>

CallEscapeXml ==
    /\ fn.op = "escapeXml"
    /\ ~fn.done
    /\ fn' = [op |-> fn.op, text |-> fn.text, done |-> TRUE,
              result |-> escapeXml(fn.text)]
    /\ UNCHANGED <<pollerVars, histVars, traceVars, serverVars, clock>>

CallHashString ==
    /\ fn.op = "hashString"
    /\ ~fn.done
    /\ fn' = [op |-> fn.op, input |-> fn.input, done |-> TRUE,
              result |-> hashString(fn.input)]
    /\ UNCHANGED <<pollerVars, histVars, traceVars, serverVars, clock>>

NextText ==
    \/ CallTruncateText
    \/ CallTextBudgets
    \/ CallEscapeXml
    \/ CallHashString

SpecText == InitText /\ [][NextText]_vars

----------------------------------------------------------------------------
\* buildSvgConfig (server.ts), applied to the query of one request, with the
\* theme and font files of the deployment as inputs.

\* types.ts:82-103: the fields a query can override, and width for the others.
defaultSvgConfig ==
    [width |-> 800, height |-> 200, albumSize |-> 150,
     cardBorder |-> <<"#", "2", "7", "2", "7", "2", "a">>,
     albumPosition |-> "left", textAlign |-> "left",
     showStatus |-> TRUE, showTitle |-> TRUE, showArtist |-> TRUE,
     showAlbum |-> TRUE,
     fontTitleFamily |-> "DotGothic16", fontBodyFamily |-> "Space Mono",
     fontTitleFile |-> "DotGothic16-Regular.ttf",
     fontBodyFile |-> "SpaceMono-Regular.ttf"]

\* The content of themes/<name>.json for the themes that pass isSvgConfig
\* (server.ts:63-95), which has every field of defaultSvgConfig.
ThemeFile(name) ==
    IF name = "neon"
    THEN [width |-> 400, height |-> 120, albumSize |-> 90,
          cardBorder |-> <<"#", "f", "f", "0", "0", "f", "f">>,
          albumPosition |-> "right", textAlign |-> "center",
          showStatus |-> FALSE, showTitle |-> FALSE, showArtist |-> FALSE,
          showAlbum |-> FALSE,
          fontTitleFamily |-> "Neon Sans", fontBodyFamily |-> "Neon Mono",
          fontTitleFile |-> "neon.ttf", fontBodyFile |-> "neon-mono.ttf"]
    ELSE [defaultSvgConfig EXCEPT !.width = 600, !.textAlign = "right",
                                  !.showAlbum = FALSE]

\* The values of the query parameters; Null is an absent parameter.
ThemeParams == {Null, "neon", "broken", "../x"}
PositionParams == {Null, "left", "right", "Right"}
AlignParams == {Null, "right", " CENTRE ", "middle"}
BooleanParams == {Null, "", "1", "0", "true", "false", " TRUE ", "yes"}
FontFileParams == {Null, "foo-bar.ttf", "a/b.ttf", ".ttf"}
FontFamilyParams == {Null, "comic sans", "comic;sans"}

\* value.trim().toLowerCase() on the values above.
TrimLower(value) ==
    CASE value = " CENTRE " -> "centre"
      [] value = " TRUE " -> "true"
      [] OTHER -> value

\* server.ts:11: THEME_NAME_PATTERN = /^[a-z0-9_-]+$/i
THEME_NAME_PATTERN(name) == name \in {"default", "neon", "broken"}

\* server.ts:12: FONT_FILE_PATTERN = /^[a-z0-9._-]+$/i
FONT_FILE_PATTERN(name) ==
    name \in {"foo-bar.ttf", ".ttf", "neon.ttf", "neon-mono.ttf",
              "DotGothic16-Regular.ttf", "SpaceMono-Regular.ttf"}

\* server.ts:13: FONT_FAMILY_PATTERN = /^[a-z0-9 _-]+$/i
FONT_FAMILY_PATTERN(name) == name \in {"comic sans"}

\* server.ts:144-150
parseBooleanParam(value) ==
    IF ~Truthy(value) THEN Undefined
    ELSE LET normalized == TrimLower(value)
         IN  IF normalized = "1" \/ normalized = "true" THEN "TRUE"
             ELSE IF normalized = "0" \/ normalized = "false" THEN "FALSE"
             ELSE Undefined

\* server.ts:152-160
parseTextAlign(value) ==
    IF ~Truthy(value) THEN Undefined
    ELSE LET normalized == TrimLower(value)
         IN  IF normalized = "left" THEN "left"
             ELSE IF normalized = "right" THEN "right"
             ELSE IF normalized = "center" \/ normalized = "centre"
                  THEN "center"
             ELSE Undefined

\* server.ts:162-165: the extension is dropped, runs of _ and - become one
\* blank; a name that is only an extension gives the empty string.
inferFontFamily(fileName) ==
    CASE fileName = "foo-bar.ttf" -> "foo bar"
      [] fileName = ".ttf" -> ""
      [] OTHER -> fileName

\* server.ts:167-172
parseFontFile(value) ==
    IF ~Truthy(value) THEN Undefined
    ELSE IF ~FONT_FILE_PATTERN(value) THEN Undefined
    ELSE value

\* server.ts:174-179
parseFontFamily(value) ==
    IF ~Truthy(value) THEN Undefined
    ELSE IF ~FONT_FAMILY_PATTERN(value) THEN Undefined
    ELSE value

\* The null that loadTheme returns.
NoTheme == [present |-> FALSE]

\* server.ts:181-204: the theme, or null when the file is missing or does not
\* pass isSvgConfig.  themeFiles is the set of themes that load; the cache
\* returns what an earlier load returned.
loadTheme(name, themeFiles) ==
    IF ~THEME_NAME_PATTERN(name) THEN NoTheme
    ELSE IF name \in themeFiles
         THEN [present |-> TRUE, config |-> ThemeFile(name)]
    ELSE NoTheme

\* The null that loadFontData returns, as titleFont?.dataUrl and
\* titleFont?.format read it.
NoFont == [dataUrl |-> Undefined, format |-> Undefined]

\* server.ts:106-142: whether the font file is read; every name used here
\* ends in .ttf.
loadFontData(fileName, fontFiles) ==
    IF ~FONT_FILE_PATTERN(fileName) THEN NoFont
    ELSE IF fileName \in fontFiles
         THEN [dataUrl |-> "data:font/ttf;base64", format |-> "truetype"]
    ELSE NoFont

\* `value ? ... : ...` on a string that may be undefined.
Given(value) == value # Undefined /\ Truthy(value)

\* { ...base, ...(defined ? { key: value } : {}) }
Spread(base, key, defined, value) ==
    IF defined THEN [base EXCEPT ![key] = value] ELSE base

\* server.ts:231-244 with the theme spread after the query overrides.
Layers_themeLast(theme, q) ==
    LET over ==
          Spread(Spread(Spread(Spread(Spread(Spread(Spread(Spread(Spread(Spread(
            defaultSvgConfig,
            "albumPosition", q.albumPosition # Undefined, q.albumPosition),
            "textAlign", q.textAlign # Undefined, q.textAlign),
            "showStatus", q.showStatus # Undefined, q.showStatus = "TRUE"),
            "showTitle", q.showTitle # Undefined, q.showTitle = "TRUE"),
            "showArtist", q.showArtist # Undefined, q.showArtist = "TRUE"),
            "showAlbum", q.showAlbum # Undefined, q.showAlbum = "TRUE"),
            "fontTitleFile", Given(q.fontTitleFile), q.fontTitleFile),
            "fontBodyFile", Given(q.fontBodyFile), q.fontBodyFile),
            "fontTitleFamily", Given(q.fontTitleFamily), q.fontTitleFamily),
            "fontBodyFamily", Given(q.fontBodyFamily), q.fontBodyFamily)
    IN  IF theme.present THEN theme.config ELSE over

\* server.ts:231-244: defaultSvgConfig, then the theme, then each override
\* that is defined.
Layers(theme, q) ==
    Spread(Spread(Spread(Spread(Spread(Spread(Spread(Spread(Spread(Spread(
      IF theme.present THEN theme.config ELSE defaultSvgConfig,
      "albumPosition", q.albumPosition # Undefined, q.albumPosition),
      "textAlign", q.textAlign # Undefined, q.textAlign),
      "showStatus", q.showStatus # Undefined, q.showStatus = "TRUE"),
      "showTitle", q.showTitle # Undefined, q.showTitle = "TRUE"),
      "showArtist", q.showArtist # Undefined, q.showArtist = "TRUE"),
      "showAlbum", q.showAlbum # Undefined, q.showAlbum = "TRUE"),
      "fontTitleFile", Given(q.fontTitleFile), q.fontTitleFile),
      "fontBodyFile", Given(q.fontBodyFile), q.fontBodyFile),
      "fontTitleFamily", Given(q.fontTitleFamily), q.fontTitleFamily),
      "fontBodyFamily", Given(q.fontBodyFamily), q.fontBodyFamily)

\* server.ts:206-254
buildSvgConfig(params, themeFiles, fontFiles) ==
    LET themeParam == OrElse(params.theme, "default")
        themeName == IF THEME_NAME_PATTERN(themeParam) THEN themeParam
                     ELSE "default"
        theme == loadTheme(themeName, themeFiles)
        position == params.position
        albumPosition == IF position = "right" THEN "right"
                         ELSE IF position = "left" THEN "left"
                         ELSE Undefined
        fontTitleFile == parseFontFile(params.fontTitle)
        fontBodyFile == parseFontFile(params.fontBody)
        fontTitleFamilyParam == parseFontFamily(params.fontTitleFamily)
        fontBodyFamilyParam == parseFontFamily(params.fontBodyFamily)
        fontTitleFamily ==
            IF Given(fontTitleFamilyParam) THEN fontTitleFamilyParam
            ELSE IF Given(fontTitleFile) THEN inferFontFamily(fontTitleFile)
            ELSE Undefined
        fontBodyFamily ==
            IF Given(fontBodyFamilyParam) THEN fontBodyFamilyParam
            ELSE IF Given(fontBodyFile) THEN inferFontFamily(fontBodyFile)
            ELSE Undefined
        baseConfig ==
            Layers(theme,
                   [albumPosition |-> albumPosition,
                    textAlign |-> parseTextAlign(params.align),
                    showStatus |-> parseBooleanParam(params.showStatus),
                    showTitle |-> parseBooleanParam(params.showTitle),
                    showArtist |-> parseBooleanParam(params.showArtist),
                    showAlbum |-> parseBooleanParam(params.showAlbum),
                    fontTitleFile |-> fontTitleFile,
                    fontBodyFile |-> fontBodyFile,
                    fontTitleFamily |-> fontTitleFamily,
                    fontBodyFamily |-> fontBodyFamily])
        titleFont == loadFontData(baseConfig.fontTitleFile, fontFiles)
        bodyFont == loadFontData(baseConfig.fontBodyFile, fontFiles)
    IN  [base |-> baseConfig,
         fontTitleDataUrl |-> titleFont.dataUrl,
         fontBodyDataUrl |-> bodyFont.dataUrl,
         fontTitleFormat |-> titleFont.format,
         fontBodyFormat |-> bodyFont.format]

\* The query strings of the requests, and the files of the deployment: the
\* theme "neon" loads, "broken" does not, themes/default.json and the font
\* files are there or not.
InitConfig ==
    /\ InitPoller
    /\ InitServer
    /\ inflight = EmptyBag
    /\ tracing = FALSE
    /\ fn \in [op : {"buildSvgConfig"},
               params : [theme : ThemeParams, position : PositionParams,
                         align : AlignParams, showStatus : BooleanParams,
                         showTitle : {Null, "0"}, showArtist : {Null, "1"},
                         showAlbum : {Null, "yes"},
                         fontTitle : FontFileParams,
                         fontBody : {Null, "foo-bar.ttf"},
                         fontTitleFamily : FontFamilyParams,
                         fontBodyFamily : {Null, "comic sans"}],
               themeFiles : {{"neon"}, {"neon", "default"}},
               fontFiles : {{}, {"foo-bar.ttf", "neon.ttf", "neon-mono.ttf",
                                 "DotGothic16-Regular.ttf",
                                 "SpaceMono-Regular.ttf"}},
               done : {FALSE}]

CallBuildSvgConfig ==
    /\ fn.op = "buildSvgConfig"
    /\ ~fn.done
    /\ fn' = [op |-> fn.op, params |-> fn.params,
              themeFiles |-> fn.themeFiles, fontFiles |-> fn.fontFiles,
              done |-> TRUE,
              config |-> buildSvgConfig(fn.params, fn.themeFiles, fn.fontFiles)]
    /\ UNCHANGED <<pollerVars, histVars, traceVars, serverVars, clock>>

NextConfig == CallBuildSvgConfig

SpecConfig == InitConfig /\ [][NextConfig]_vars

\* The renderer given snapshots with reserved characters in every string.
InitMarkup ==
    /\ InitPoller
    /\ InitServer
    /\ inflight = EmptyBag
    /\ tracing = FALSE
    /\ fn \in [op : {"generateNowPlayingSvg"},
               data : MarkupSnapshots,
               config : {defaultSvgConfig},
               now : {1000, 900000},
               done : {FALSE}]

SpecMarkup == InitMarkup /\ [][NextRender]_vars

----------------------------------------------------------------------------
\* The poller, the slot and the renderer with time passing: the player
\* reports one track, playing, at every status fetch, every publish is stored
\* and answered, and the card is requested at any time.

\* server.ts:32-35: the slot's value as the renderer receives it.
getNowPlaying(slot) ==
    IF slot = NoData THEN NullSnapshot
    ELSE [present |-> TRUE, title |-> Chars(slot.title), artist |-> <<"a">>,
          album |-> Chars(slot.album), status |-> slot.status,
          artBase64 |-> slot.artBase64,
          colors |-> IF slot.colors = Null THEN NoPalette ELSE Palette5,
          updatedAt |-> slot.updatedAt]

\* What /api1/status returns at every fetch: track 5, playing.
SameTrackPlaying ==
    CHOOSE status \in TauonStatus : status.id = 5 /\ status.status = "playing"

InitClock ==
    /\ InitPollerState
    /\ InitServer
    /\ clock = [running |-> TRUE, now |-> 0]
    /\ inflight = SetToBag({NewTick})
    /\ tracing = FALSE
    /\ fn = [op |-> "none"]

\* server.ts:256-269 for a request without query, at the present time: the
\* slot is read and rendered with the default config.
HandleGetSvg ==
    /\ fn' = [op |-> "handleGetSvg", now |-> clock.now,
              data |-> getNowPlaying(kv),
              svg |-> generateNowPlayingSvg(getNowPlaying(kv),
                                            defaultSvgConfig, clock.now)]
    /\ UNCHANGED <<pollerVars, histVars, traceVars, serverVars, clock>>

NextClock ==
    \/ MainSetInterval
    \/ TimerFire
    \/ \E t \in Ticks : StatusOk(t, SameTrackPlaying)
    \/ \E t \in Ticks : ArtOk(t)
    \/ \E t \in Ticks : ArtNull(t)
    \/ \E t \in Ticks : ServerStore(t)
    \/ \E t \in Ticks : PublishOk(t)
    \/ HandleGetSvg

SpecClock == InitClock /\ [][NextClock]_vars

----------------------------------------------------------------------------
\* C1: shouldUpdate answers 'do not publish' for a status that is neither
\* playing nor paused; else 'publish' when the track id differs from
\* lastSentTrackId; else 'publish' when the status differs from lastSentStatus;
\* else 'publish' when lastSeenStatus is stopped; otherwise 'do not publish'.
ShouldUpdateOrder ==
    (fn.op = "shouldUpdate" /\ fn.result # "pending") =>
        fn.result =
            CASE fn.status \notin {"playing", "paused"} -> "skip"
              [] fn.status \in {"playing", "paused"}
                 /\ fn.trackId # fn.lastSentTrackId -> "publish"
              [] fn.status \in {"playing", "paused"}
                 /\ fn.trackId = fn.lastSentTrackId
                 /\ fn.status # fn.lastSentStatus -> "publish"
              [] fn.status \in {"playing", "paused"}
                 /\ fn.trackId = fn.lastSentTrackId
                 /\ fn.status = fn.lastSentStatus
                 /\ fn.lastSeenStatus = "stopped" -> "publish"
              [] OTHER -> "skip"

\* The fourth rule decided: same track, same status, resumed from stopped.
ShouldUpdateResumeSeen ==
    /\ fn.op = "shouldUpdate"
    /\ fn.result = "publish"
    /\ fn.trackId = fn.lastSentTrackId
    /\ fn.status = fn.lastSentStatus

\* C2: from a fresh start and with every publish succeeding, the observations
\* of Script are published exactly at indices 0, 2 and 3.
AdmissionExample ==
    /\ (scriptPos >= 0 /\ ~anyFail) => pubAt \subseteq {0, 2, 3}
    /\ ( /\ scriptPos = Len(Script)
         /\ ~anyFail
         /\ \A t \in Ticks : t.idx < 0 \/ t.pc = "status" )
       => pubAt = {0, 2, 3}

\* C3: after (t, playing) was published, a stopped observation followed by an
\* observation of (t, playing) is published again.
ResumePublishes ==
    [][ \A t \in Ticks : \A status \in TauonStatus :
          ( /\ StatusOk(t, status)
            /\ resumeFrom # NullId
            /\ status.id = resumeFrom
            /\ status.status = "playing" )
          => ev' = "admit" ]_vars

\* C4: a tick that observes the track id and status of the last publish that
\* succeeded, with no stopped observation since, ends there: it fetches no
\* art, sends nothing and leaves the slot alone.  So a tick goes on only on a
\* track change, a status change or a resume from stopped.
NoRedundantPublish ==
    [][ /\ \A t \in Ticks : \A status \in TauonStatus :
          ( /\ StatusOk(t, status)
            /\ status.status \in {"playing", "paused"}
            /\ status.id = okId
            /\ status.status = okStatus
            /\ ~stoppedSince )
          => /\ inflight' = Remove(t)
             /\ kv' = kv
             /\ ev' = "suppress"
        /\ \A t \in Ticks : \A status \in TauonStatus :
          ( StatusOk(t, status) /\ ev' = "admit" )
          => /\ status.status \in {"playing", "paused"}
             /\ \/ status.id # lastSentTrackId
                \/ status.status # lastSentStatus
                \/ lastSeenStatus = "stopped" ]_vars

\* A playable observation has been suppressed after a publish succeeded.
RedundantSuppressed ==
    /\ ev = "suppress"
    /\ okId # NullId
    /\ kv # NoData

\* C5: a failed publish leaves lastSentTrackId and lastSentStatus alone, and
\* the next observation, when it is the failed one again, is admitted again.
RetryAfterFailure ==
    [][ /\ \A t \in Ticks :
             PublishFail(t) => UNCHANGED <<lastSentTrackId, lastSentStatus>>
        /\ \A t \in Ticks : \A status \in TauonStatus :
             (StatusOk(t, status) /\ retry = <<status.id, status.status>>)
             => ev' = "admit" ]_vars

\* C6: a failed status fetch ends the tick and changes nothing: no art fetch,
\* no publish, and the six remembered values and the slot are as before.
StatusFailureSkipsTick ==
    [][ ev' = "statusNull" =>
          /\ UNCHANGED <<lastSentTrackId, lastSentStatus, lastSeenStatus,
                         lastAlbumName, lastArtBase64, lastColors, kv>>
          /\ \E t \in Ticks : t.pc = "status" /\ inflight' = Remove(t) ]_vars

\* A status fetch has failed with every remembered value set.
StatusFailureSeen ==
    /\ ev = "statusNull"
    /\ lastSentTrackId # NullId
    /\ lastSeenStatus # Null
    /\ lastArtBase64 # Null
    /\ kv # NoData

\* C7 as stated: a tick whose art fetch failed publishes nothing, so the slot
\* never holds what such a tick sent.
ArtFailureSkipsTick ==
    \A t \in Ticks : ArtFailed(t) => t.pc # "stored"

\* What the code does on a failed art fetch (index.ts:62-91): none of the
\* remembered values change, and the tick goes on to send a snapshot with
\* artBase64 and colors both null.
ArtFailurePublishesWithoutArt ==
    [][ ev' = "artNull" =>
          /\ UNCHANGED <<lastSentTrackId, lastSentStatus, lastSeenStatus,
                         lastAlbumName, lastArtBase64, lastColors, kv>>
          /\ \E t \in Ticks :
               /\ t.pc = "art"
               /\ inflight' =
                    Replace(t, [t EXCEPT
                       !.pc = "publish",
                       !.data = [title |-> t.status.title,
                                 album |-> t.status.album,
                                 status |-> t.status.status,
                                 artBase64 |-> Null,
                                 colors |-> Null,
                                 updatedAt |-> clock.now]]) ]_vars

\* The slot holds the art-less snapshot of a tick whose art fetch failed
\* while art of another album stays cached.
ArtFailurePublished ==
    \E t \in Ticks :
        /\ ArtFailed(t)
        /\ t.pc = "stored"
        /\ kv = t.data
        /\ lastArtBase64 # Null

\* C8: at most one poll() is in progress at any time.
TicksNeverOverlap == BagCardinality(inflight) <= 1

\* C9: in every snapshot assembled, sent or stored, artBase64 and colors are
\* both null or both non-null.
ArtAndColorsTogether ==
    \A d \in {kv} \cup {t.data : t \in Ticks} :
        (d.artBase64 = Null) <=> (d.colors = Null)

\* The slot holds a snapshot with art while a snapshot without art is sent.
ArtAndColorsSeen ==
    /\ kv.artBase64 # Null
    /\ kv.colors # Null
    /\ \E t \in Ticks : t.pc = "publish" /\ t.data.artBase64 = Null

\* C10: every snapshot sent or stored has status playing or paused.
StoppedNeverStored ==
    \A d \in {kv} \cup {t.data : t \in Ticks} :
        d # NoData => d.status \in {"playing", "paused"}

\* The slot holds a snapshot while the last status seen is stopped.
StoredWhileStopped ==
    /\ kv # NoData
    /\ lastSeenStatus = "stopped"

SvgRequests ==
    {req \in Requests :
        req.method = "GET" /\ req.url.path = "/now-playing.svg"}

LastWriteWins ==
    [][ /\ \A r \in Pending :
             ( /\ r.req.method = "GET"
               /\ r.req.url.path = "/api/now-playing"
               /\ reqs' = Finish(r)
               /\ resp'.status = 200 )
             => /\ resp'.req = r.req
                /\ resp'.value = accepted
        /\ kv' # kv
             => \E r \in Pending :
                  /\ r.req.method = "POST"
                  /\ r.req.url.path = "/api/now-playing"
                  /\ r.req.auth = "Bearer secret"
                  /\ r.req.body # "{five"
                  /\ reqs' = Finish(r)
                  /\ resp'.status = 200
                  /\ kv' = JsonParse(r.req.body).value
                  /\ accepted' = kv' ]_vars

\* GET /api/now-playing has returned the second body stored, which has no
\* art, while another POST is being handled.
LastWriteReturned ==
    /\ resp.req.method = "GET"
    /\ resp.req.url.path = "/api/now-playing"
    /\ resp.status = 200
    /\ resp.value.title = "seven"
    /\ resp.value.artBase64 = Null
    /\ \E r \in Pending : r.req.method = "POST"

CorsOnEveryResponse ==
    resp # NoResponse
    => /\ resp.cors
       /\ resp.req.method = "OPTIONS" => resp.status = 204

\* C16: a store read or write that fails, or a renderer that throws on the
\* stored value, is answered 500 with the body {"error":"Internal server
\* error"}, never with another status.
InternalErrorIs500 ==
    [][ \A r \in Pending :
          ( \/ GetNowPlayingThrows(r)
            \/ StoreNowPlayingThrows(r)
            \/ RenderSvg(r) /\ r.read # NoData /\ r.read.title = Undefined )
          => /\ resp'.req = r.req
             /\ resp'.status = 500
             /\ resp'.body = "Internal server error" ]_vars

\* C17: for a snapshot with status playing or paused and any render time,
\* exactly one of playing, paused and stale holds; stale holds iff
\* now - updatedAt > 300000, whatever the status; and the pill, when the
\* status line is shown, reads LAST PLAYED when stale, NOW PLAYING when
\* playing and not stale, PAUSED otherwise.
DisplayStates ==
    (fn.op = "generateNowPlayingSvg" /\ fn.done /\ fn.data.present)
    => LET stale == fn.now - fn.data.updatedAt > 300000
       IN  /\ fn.svg.isStale <=> stale
           /\ fn.data.status \in {"playing", "paused"}
              => /\ Cardinality({k \in {"isPlaying", "isPaused", "isStale"} :
                                    fn.svg[k]}) = 1
                 /\ fn.svg.isPlaying <=> (fn.data.status = "playing" /\ ~stale)
                 /\ fn.svg.isPaused <=> (fn.data.status = "paused" /\ ~stale)
                 /\ fn.config.showStatus
                    => fn.svg.pill =
                         IF stale THEN "LAST PLAYED"
                         ELSE IF fn.data.status = "playing" THEN "NOW PLAYING"
                         ELSE "PAUSED"

\* A paused snapshot rendered exactly five minutes after its update is not
\* stale yet.
PausedAtFiveMinutes ==
    /\ fn.op = "generateNowPlayingSvg"
    /\ fn.done
    /\ fn.data.present
    /\ fn.data.status = "paused"
    /\ fn.now - fn.data.updatedAt = 300000
    /\ fn.svg.pill = "PAUSED"

\* C18: the rendering of null, under every config, has the text 'Nothing
\* playing right now' and the placeholder glyph, no <image>, none of the
\* status, title, artist and album lines and no third waveform layer.
NullSnapshotRendering ==
    (fn.op = "generateNowPlayingSvg" /\ fn.done /\ ~fn.data.present)
    => /\ fn.svg.nothingPlaying
       /\ fn.svg.placeholder
       /\ ~fn.svg.image
       /\ fn.svg.pill = ""
       /\ fn.svg.titleNodes = <<>>
       /\ ~fn.svg.titleAnimated
       /\ ~fn.svg.artistLine
       /\ ~fn.svg.albumLine
       /\ ~fn.svg.playingWave

\* null has been rendered under a config that shows all four lines.
NullSnapshotRendered ==
    /\ fn.op = "generateNowPlayingSvg"
    /\ fn.done
    /\ ~fn.data.present
    /\ fn.config.showStatus /\ fn.config.showTitle
    /\ fn.config.showArtist /\ fn.config.showAlbum
    /\ fn.svg.nothingPlaying

\* C19: the album box has exactly one of the <image> and the placeholder; the
\* image iff the snapshot has a track (playing, paused or stale) and its
\* artBase64 is a non-empty string.
ImageOrPlaceholder ==
    (fn.op = "generateNowPlayingSvg" /\ fn.done)
    => LET stale == fn.now - fn.data.updatedAt > 300000
           track == /\ fn.data.present
                    /\ fn.data.status \in {"playing", "paused"} \/ stale
           art == fn.data.artBase64 # Null /\ fn.data.artBase64 # ""
       IN  /\ fn.svg.image <=> (track /\ art)
           /\ fn.svg.placeholder <=> ~fn.svg.image

\* A stopped snapshot that is not stale has art and is rendered with the
\* placeholder.
PlaceholderDespiteArt ==
    /\ fn.op = "generateNowPlayingSvg"
    /\ fn.done
    /\ fn.data.present
    /\ fn.data.status = "stopped"
    /\ fn.now - fn.data.updatedAt <= 300000
    /\ fn.data.artBase64 = "jpeg5"
    /\ fn.svg.placeholder
    /\ ~fn.svg.image

\* C20 as stated: with a track and the title line shown, the title is two
\* animated copies exactly when textAlign is not center and
\* estimateTextWidth(title, 24) exceeds the clip width; otherwise it is one
\* static node truncated to its character budget.
TitleScrolling ==
    ( /\ fn.op = "generateNowPlayingSvg"
      /\ fn.done
      /\ fn.svg.hasTrack
      /\ fn.config.showTitle )
    => LET clipWidth == TextAreaWidth(fn.config)
           budget == IF 10 * 1320 >= clipWidth * 100 THEN 10
                     ELSE (clipWidth * 100) \div 1320
       IN  IF /\ fn.config.textAlign # "center"
              /\ Len(fn.data.title) * 1320 > clipWidth * 100
           THEN /\ fn.svg.titleAnimated
                /\ fn.svg.titleNodes =
                     <<escapeXml(fn.data.title), escapeXml(fn.data.title)>>
           ELSE /\ ~fn.svg.titleAnimated
                /\ fn.svg.titleNodes =
                     <<escapeXml(truncateText(fn.data.title, budget))>>

\* C20 amended: the same, the title being two animated copies exactly when
\* textAlign is not center, the clip width is positive and
\* estimateTextWidth(title, 24) exceeds it.
TitleScrollingWithRoom ==
    ( /\ fn.op = "generateNowPlayingSvg"
      /\ fn.done
      /\ fn.svg.hasTrack
      /\ fn.config.showTitle )
    => LET clipWidth == TextAreaWidth(fn.config)
           budget == IF 10 * 1320 >= clipWidth * 100 THEN 10
                     ELSE (clipWidth * 100) \div 1320
       IN  IF /\ fn.config.textAlign # "center"
              /\ clipWidth > 0
              /\ Len(fn.data.title) * 1320 > clipWidth * 100
           THEN /\ fn.svg.titleAnimated
                /\ fn.svg.titleNodes =
                     <<escapeXml(fn.data.title), escapeXml(fn.data.title)>>
           ELSE /\ ~fn.svg.titleAnimated
                /\ fn.svg.titleNodes =
                     <<escapeXml(truncateText(fn.data.title, budget))>>

\* A centred title wider than its clip has been rendered once, cut to its
\* budget of ten characters.
CentredTitleTruncated ==
    /\ fn.op = "generateNowPlayingSvg"
    /\ fn.done
    /\ fn.svg.hasTrack
    /\ fn.config.showTitle
    /\ fn.config.textAlign = "center"
    /\ fn.config.width = 330
    /\ Len(fn.data.title) = 12
    /\ ~fn.svg.titleAnimated
    /\ Len(fn.svg.titleNodes) = 1
    /\ Len(fn.svg.titleNodes[1]) = 10

\* C21: for maxChars with maxChars-3 >= 0, truncateText returns the text
\* unchanged when it has at most maxChars characters and otherwise its first
\* maxChars-3 characters followed by '...', so the result has
\* min(len(text), maxChars) characters; and the title, artist and album
\* budgets of the renderer are at least 10 for every width, album size and
\* album position.
TruncateTextContract ==
    /\ (fn.op = "truncateText" /\ fn.done /\ fn.maxLength >= 3)
       => /\ Len(fn.text) <= fn.maxLength => fn.result = fn.text
          /\ Len(fn.text) > fn.maxLength
             => /\ Len(fn.result) = fn.maxLength
                /\ \A i \in 1..(fn.maxLength - 3) : fn.result[i] = fn.text[i]
                /\ \A i \in (fn.maxLength - 2)..fn.maxLength : fn.result[i] = "."
          /\ Len(fn.result) =
               IF Len(fn.text) <= fn.maxLength THEN Len(fn.text)
               ELSE fn.maxLength
    /\ (fn.op = "textBudgets" /\ fn.done)
       => /\ fn.result.title >= 10
          /\ fn.result.artist >= 10
          /\ fn.result.album >= 10

\* A text of ten characters has been cut to a budget of five: two characters
\* and three dots.
TruncatedToFive ==
    /\ fn.op = "truncateText"
    /\ fn.done
    /\ Len(fn.text) = 10
    /\ fn.maxLength = 5
    /\ fn.result = <<"x", "x", ".", ".", ".">>

\* C22: escapeXml is the single-pass map of & to &amp;, < to &lt;, > to &gt;,
\* " to &quot; and ' to &apos; that leaves every other character alone: an
\* ampersand an entity brings in is not escaped again, and the output has no
\* raw <, >, " or '.
EscapeXmlSinglePass ==
    (fn.op = "escapeXml" /\ fn.done)
    => LET Entity(c) ==
               CASE c = "&" -> <<"&", "a", "m", "p", ";">>
                 [] c = "<" -> <<"&", "l", "t", ";">>
                 [] c = ">" -> <<"&", "g", "t", ";">>
                 [] c = "\"" -> <<"&", "q", "u", "o", "t", ";">>
                 [] c = "'" -> <<"&", "a", "p", "o", "s", ";">>
                 [] OTHER -> <<c>>
           n == Len(fn.text)
           mapped == IF n = 0 THEN <<>>
                     ELSE IF n = 1 THEN Entity(fn.text[1])
                     ELSE IF n = 2 THEN Entity(fn.text[1]) \o Entity(fn.text[2])
                     ELSE IF n = 3 THEN Entity(fn.text[1]) \o Entity(fn.text[2])
                                        \o Entity(fn.text[3])
                     ELSE Entity(fn.text[1]) \o Entity(fn.text[2])
                          \o Entity(fn.text[3]) \o Entity(fn.text[4])
       IN  /\ fn.result = mapped
           /\ \A i \in 1..Len(fn.result) :
                fn.result[i] \notin {"<", ">", "\"", "'"}

\* A text with < before & has been escaped: the & of &lt; stays as it is.
EscapedOnce ==
    /\ fn.op = "escapeXml"
    /\ fn.done
    /\ fn.text = <<"<", "&", "'">>
    /\ fn.result = <<"&", "l", "t", ";", "&", "a", "m", "p", ";",
                     "&", "a", "p", "o", "s", ";">>

\* C23: hashString is the absolute value of the sum built by
\* hash = hash*31 + charCode with signed 32-bit wraparound after every
\* character: it is never negative, also when that sum is -2^31.
HashStringNonNegative ==
    (fn.op = "hashString" /\ fn.done)
    => LET Times31Plus(a, c) ==
               LET lo == a[2] * 31 + c
               IN  <<(a[1] * 31 + lo \div 65536) % 65536, lo % 65536>>
           n == Len(fn.input)
           Acc[i \in 0..n] ==
               IF i = 0 THEN <<0, 0>> ELSE Times31Plus(Acc[i - 1], fn.input[i])
           sum == Acc[n]
           minus == sum[1] >= 32768
           abs == IF ~minus THEN sum
                  ELSE IF sum[2] = 0 THEN <<65536 - sum[1], 0>>
                  ELSE <<65535 - sum[1], 65536 - sum[2]>>
       IN  /\ ~fn.result.negative
           /\ fn.result.magnitude = abs

\* The string whose sum is -2^31 has been hashed to 2^31.
HashOfMinInt ==
    /\ fn.op = "hashString"
    /\ fn.done
    /\ fn.input = <<2325, 9, 30, 12, 2>>
    /\ fn.result = [negative |-> FALSE, magnitude |-> <<32768, 0>>]

LastSentOnlyOnSuccess ==
    [][ /\ ev' = "publishOk"
           => \E t \in Ticks :
                /\ t.pc = "stored"
                /\ inflight' = Remove(t)
                /\ lastSentTrackId' = t.status.id
                /\ lastSentStatus' = t.status.status
                /\ t.data.status = t.status.status
        /\ ev' # "publishOk"
           => UNCHANGED <<lastSentTrackId, lastSentStatus>> ]_vars

\* Track 5 is recorded as sent although the slot holds the snapshot of track
\* 7: that publish was stored and its answer was lost.
LastSentAfterLostReply ==
    /\ lastSentTrackId = 5
    /\ lastSentStatus = "playing"
    /\ kv.title = "seven"
    /\ lastPublish = "failed"
    /\ inflight = EmptyBag

TickCallOrder ==
    [][ LET Complete(d) ==
                /\ d.title # Null
                /\ d.album # Null
                /\ d.status \in {"playing", "paused"}
                /\ d.updatedAt # NullId
                /\ (d.artBase64 = Null) = (d.colors = Null)
        IN
        /\ inflight' # inflight
           => \/ inflight' = inflight (+) SetToBag({NewTick})
              \/ \E t \in Ticks :
                   /\ inflight' = Remove(t)
                   /\ t.pc \in {"status", "publish", "stored"}
              \/ \E t \in Ticks : \E u \in BagToSet(inflight') :
                   /\ inflight' = Replace(t, u)
                   /\ <<t.pc, u.pc>> \in
                        { <<"status", "art">>, <<"status", "publish">>,
                          <<"art", "publish">>, <<"publish", "stored">> }
                   /\ (u.pc = "art") = (u.data = NoData)
                   /\ u.pc = "publish" => Complete(u.data)
                   /\ u.pc = "stored" => u.data = t.data
        /\ ev' = "publishFail" => inflight' # inflight
        /\ kv' # kv
           => \E t \in Ticks :
                /\ t.pc = "publish"
                /\ kv' = t.data
                /\ Complete(kv') ]_vars

\* A tick has fetched the status, then the art, and its publish has been
\* stored: the slot holds its whole payload.
ArtThenPublishStored ==
    \E t \in Ticks :
        /\ t.pc = "stored"
        /\ t.data.artBase64 = "jpeg5"
        /\ t.data.colors = "palette5"
        /\ kv = t.data

\* C28: while the player reports the same track playing at every tick and
\* every publish succeeds, a card rendered from a stored snapshot is in the
\* playing state, with the NOW PLAYING pill and the third waveform layer,
\* never in the stale state.
PlayingNeverStale ==
    (fn.op = "handleGetSvg" /\ fn.data.present)
    => /\ ~fn.svg.isStale
       /\ fn.svg.isPlaying
       /\ fn.svg.pill = "NOW PLAYING"
       /\ fn.svg.playingWave

\* C29: whenever no tick is in progress and the publish that returned last
\* succeeded, the slot holds the snapshot built from the observation recorded
\* as last sent: its status is lastSentStatus and its title and album are
\* those of the track lastSentTrackId.
StoredIsLastSent ==
    (inflight = EmptyBag /\ lastPublish = "ok")
    => \E status \in TauonStatus :
         /\ status.id = lastSentTrackId
         /\ status.status = lastSentStatus
         /\ kv.status = status.status
         /\ kv.title = NowPlayingData(status, Null, Null).title
         /\ kv.album = NowPlayingData(status, Null, Null).album

\* C30: every string of the snapshot that reaches the markup is escaped or is
\* a computed color: the text nodes have no <, > or " and no & other than the
\* one that starts an entity, and the attribute values taken from the art and
\* the colors have no <, >, & or ".
MarkupCharactersEscaped ==
    (fn.op = "generateNowPlayingSvg" /\ fn.done)
    => LET EntityAt(text, i) ==
               \E name \in { <<"a", "m", "p", ";">>, <<"l", "t", ";">>,
                             <<"g", "t", ";">>, <<"q", "u", "o", "t", ";">>,
                             <<"a", "p", "o", "s", ";">> } :
                  /\ i + Len(name) <= Len(text)
                  /\ SubSeq(text, i + 1, i + Len(name)) = name
           TextSafe(text) ==
               \A i \in 1..Len(text) :
                  /\ text[i] \notin {"<", ">", "\""}
                  /\ text[i] = "&" => EntityAt(text, i)
           ValueSafe(text) ==
               \A i \in 1..Len(text) : text[i] \notin {"<", ">", "&", "\""}
           svg == fn.svg
       IN  /\ \A i \in 1..Len(svg.titleNodes) : TextSafe(svg.titleNodes[i])
           /\ TextSafe(svg.artistText)
           /\ TextSafe(svg.albumText)
           /\ \A i \in 1..Len(svg.stopColors) : ValueSafe(svg.stopColors[i])
           /\ ValueSafe(svg.fill)
           /\ ValueSafe(svg.glowColor)
           /\ ValueSafe(svg.waveColor)
           /\ ValueSafe(svg.imageHref)

====
